---- MODULE Spec2Model ----
(***************************************************************************)
(* Model of good_telemetry's ingestion-and-estimation core:                *)
(*   internal/metrics/parser.go   Parse, parseLine, parseLabels,           *)
(*                                splitLabels and the two line regexes     *)
(*   internal/cardinality         Analyze, formatBytes, the pattern table  *)
(*   internal/handlers            Handler.Evaluate, around Parse and the   *)
(*                                call of the LLM client                   *)
(*                                                                         *)
(* Text is a sequence of one-character strings.  Go's int and int64 are    *)
(* 64 bits wide; a machine integer is four 16-bit limbs, least significant *)
(* first, in two's complement, so that products wrap as they do in Go.     *)
(***************************************************************************)
EXTENDS Integers, Sequences, FiniteSets, TLC

VARIABLES
  input,      \* Parse: the raw text handed to Parse
  lines,      \* Parse: strings.Split(strings.TrimSpace(input), "\n")
  idx,        \* Parse: the range index i of the line loop (0-based)
  metrics,    \* Parse: the samples appended so far
  result,     \* Parse: what Parse returned
  pc,         \* position of the call in progress
  allLabels,  \* Analyze: its argument
  analysis,   \* Analyze: the report it returned
  request,    \* Evaluate: the form of the request being handled
  responses,  \* Evaluate: the responses written with c.HTML, in order
  llmCalls    \* Evaluate: the outcomes of the calls of llmClient.Evaluate

vars == <<input, lines, idx, metrics, result, pc, allLabels, analysis,
          request, responses, llmCalls>>

\* the state of the handler, which Parse and Analyze leave alone
handlerVars == <<request, responses, llmCalls>>

----------------------------------------------------------------------------
(* Bounds of the model *)

\* most labels a generated wide sample carries
MaxLabels == 16
\* limbs of the exact (unbounded in the mathematics) numbers the properties
\* compare the machine integers with
ExactLimbs == 8
\* label sets up to this size are visited in every iteration order
MaxPermLabels == 3

----------------------------------------------------------------------------
(* Machine integers *)

LimbBase == 65536
WordLimbs == 4

RECURSIVE MulSeq(_, _, _)
\* x * k + c on a limb sequence, the carry out of the top limb dropped
MulSeq(x, k, c) ==
  IF x = <<>> THEN <<>>
  ELSE LET p == Head(x) * k + c
       IN  <<p % LimbBase>> \o MulSeq(Tail(x), k, p \div LimbBase)

Zeros(n) == [j \in 1..n |-> 0]

\* the machine integer of a small non-negative number
ToInt(n) == MulSeq(<<1>> \o Zeros(WordLimbs - 1), n, 0)

\* x * k in 64-bit two's complement (Go's wrapping multiplication)
MulInt(x, k) == MulSeq(x, k, 0)

IsNegative(x) == x[WordLimbs] >= LimbBase \div 2

\* x < t for a machine integer x and a small positive t
LessThan(x, t) ==
  \/ IsNegative(x)
  \/ /\ \A j \in 2..WordLimbs : x[j] = 0
     /\ x[1] < t

RECURSIVE DivSeq(_, _, _)
\* x \div d for a non-negative limb sequence, most significant limb last
DivSeq(x, d, r) ==
  IF x = <<>> THEN <<>>
  ELSE LET n  == Len(x)
           cur == r * LimbBase + x[n]
       IN  DivSeq(SubSeq(x, 1, n - 1), d, cur % d) \o <<cur \div d>>

DivInt(x, d) == DivSeq(x, d, 0)

----------------------------------------------------------------------------
(* cardinality: constants and the pattern table *)

memoryPerSeriesBytes == 3000
lowCardinalityThreshold == 100
mediumCardinalityThreshold == 1000
highCardinalityThreshold == 10000
\* the EstimatedSeries assumed when a label name matches a pattern
unboundedSeries == 1000000

\* highCardinalityPatterns with request ids listed under session as well as
\* under trace_id
highCardinalityPatterns_Overlapping ==
  [user_id |->
      {<<"u","s","e","r","_?","i","d">>,
       <<"u","s","e","r","i","d">>,
       <<"u","s","e","r","_?","n","a","m","e">>,
       <<"u","s","e","r","n","a","m","e">>},
   email |->
      {<<"e","m","a","i","l">>,
       <<"e","_?","m","a","i","l">>},
   ip_address |->
      {<<"i","p","_?","a","d","d","r">>,
       <<"i","p","_?","a","d","d","r","e","s","s">>,
       <<"c","l","i","e","n","t","_?","i","p">>},
   timestamp |->
      {<<"t","i","m","e","s","t","a","m","p">>,
       <<"t","s">>,
       <<"e","p","o","c","h">>,
       <<"u","n","i","x","_?","t","i","m","e">>,
       <<"c","r","e","a","t","e","d","_?","a","t">>,
       <<"u","p","d","a","t","e","d","_?","a","t">>},
   uuid |->
      {<<"u","u","i","d">>,
       <<"g","u","i","d">>},
   session |->
      {<<"s","e","s","s","i","o","n","_?","i","d">>,
       <<"s","e","s","s","i","o","n">>,
       <<"r","e","q","u","e","s","t","_?","i","d">>},
   trace_id |->
      {<<"t","r","a","c","e","_?","i","d">>,
       <<"s","p","a","n","_?","i","d">>,
       <<"r","e","q","u","e","s","t","_?","i","d">>},
   url_path |->
      {<<"p","a","t","h">>,
       <<"u","r","l">>,
       <<"u","r","i">>},
   inode |->
      {<<"i","n","o","d","e">>,
       <<"f","i","l","e","_?","i","d">>,
       <<"f","d">>},
   volume |->
      {<<"v","o","l">>,
       <<"v","o","l","u","m","e">>,
       <<"v","o","l","u","m","e","_?","i","d">>,
       <<"d","i","s","k">>,
       <<"d","i","s","k","_?","i","d">>}]

\* Each pattern is (?i)^(alt|alt|...)$ ; an alternative is a sequence of
\* lower-case characters in which "_?" stands for an optional underscore.
highCardinalityPatterns ==
  [user_id |->
      {<<"u","s","e","r","_?","i","d">>,
       <<"u","s","e","r","i","d">>,
       <<"u","s","e","r","_?","n","a","m","e">>,
       <<"u","s","e","r","n","a","m","e">>},
   email |->
      {<<"e","m","a","i","l">>,
       <<"e","_?","m","a","i","l">>},
   ip_address |->
      {<<"i","p","_?","a","d","d","r">>,
       <<"i","p","_?","a","d","d","r","e","s","s">>,
       <<"c","l","i","e","n","t","_?","i","p">>},
   timestamp |->
      {<<"t","i","m","e","s","t","a","m","p">>,
       <<"t","s">>,
       <<"e","p","o","c","h">>,
       <<"u","n","i","x","_?","t","i","m","e">>,
       <<"c","r","e","a","t","e","d","_?","a","t">>,
       <<"u","p","d","a","t","e","d","_?","a","t">>},
   uuid |->
      {<<"u","u","i","d">>,
       <<"g","u","i","d">>},
   session |->
      {<<"s","e","s","s","i","o","n","_?","i","d">>,
       <<"s","e","s","s","i","o","n">>},
   trace_id |->
      {<<"t","r","a","c","e","_?","i","d">>,
       <<"s","p","a","n","_?","i","d">>,
       <<"r","e","q","u","e","s","t","_?","i","d">>},
   url_path |->
      {<<"p","a","t","h">>,
       <<"u","r","l">>,
       <<"u","r","i">>},
   inode |->
      {<<"i","n","o","d","e">>,
       <<"f","i","l","e","_?","i","d">>,
       <<"f","d">>},
   volume |->
      {<<"v","o","l">>,
       <<"v","o","l","u","m","e">>,
       <<"v","o","l","u","m","e","_?","i","d">>,
       <<"d","i","s","k">>,
       <<"d","i","s","k","_?","i","d">>}]

UpperCase == <<"A","B","C","D","E","F","G","H","I","J","K","L","M",
               "N","O","P","Q","R","S","T","U","V","W","X","Y","Z">>
LowerCase == <<"a","b","c","d","e","f","g","h","i","j","k","l","m",
               "n","o","p","q","r","s","t","u","v","w","x","y","z">>

DigitChars == <<"0","1","2","3","4","5","6","7","8","9">>

\* case folding of the (?i) flag, on the ASCII letters
ToLower(c) ==
  IF \E j \in 1..26 : UpperCase[j] = c
  THEN LowerCase[CHOOSE j \in 1..26 : UpperCase[j] = c]
  ELSE c

RECURSIVE MatchAlt(_, _)
\* the whole of s is matched by the alternative alt, ignoring case
MatchAlt(alt, s) ==
  IF alt = <<>> THEN s = <<>>
  ELSE IF Head(alt) = "_?"
       THEN \/ s # <<>> /\ Head(s) = "_" /\ MatchAlt(Tail(alt), Tail(s))
            \/ MatchAlt(Tail(alt), s)
       ELSE s # <<>> /\ ToLower(Head(s)) = Head(alt)
                     /\ MatchAlt(Tail(alt), Tail(s))

\* pattern.MatchString(labelName)
MatchString(pattern, labelName) == \E alt \in pattern : MatchAlt(alt, labelName)

NoPattern == ""

RECURSIVE FirstMatch(_, _)
\* the inner range loop: the first pattern, in the order the table happens
\* to be iterated in, that matches labelName; NoPattern when the loop ends
FirstMatch(patternOrder, labelName) ==
  IF patternOrder = <<>> THEN NoPattern
  ELSE IF MatchString(highCardinalityPatterns[Head(patternOrder)], labelName)
       THEN Head(patternOrder)
       ELSE FirstMatch(Tail(patternOrder), labelName)

----------------------------------------------------------------------------
(* cardinality.Analyze *)

\* fmt.Sprintf(format, ...): the format string with its arguments
Sprintf(format, label, tag, n) ==
  [format |-> format, label |-> label, tag |-> tag, n |-> n]

RECURSIVE formatExp(_, _)
\* the scaling loop of formatBytes: n >= unit; n /= unit
formatExp(n, exp) ==
  IF LessThan(n, 1024) THEN exp ELSE formatExp(DivInt(n, 1024), exp + 1)

formatBytes(bytes) ==
  IF LessThan(bytes, 1024)
  THEN [format |-> "%d B", bytes |-> bytes, unit |-> ""]
  ELSE [format |-> "%.1f %cB", bytes |-> bytes,
        unit |-> <<"K","M","G","T","P","E">>[formatExp(DivInt(bytes, 1024), 0) + 1]]

\* labelCounts that collects the samples that carry the label, not the
\* values they give it
labelCounts_Occurrences(labelMaps) ==
  [key \in UNION {DOMAIN labelMaps[j] : j \in DOMAIN labelMaps} |->
     {m \in DOMAIN labelMaps : key \in DOMAIN labelMaps[m]}]

\* the label index: label name -> set of the values seen for it
labelCounts(labelMaps) ==
  [key \in UNION {DOMAIN labelMaps[j] : j \in DOMAIN labelMaps} |->
     {labelMaps[j][key] : j \in {m \in DOMAIN labelMaps : key \in DOMAIN labelMaps[m]}}]

\* UnflaggedInfo with the boundaries 100 and 20 taken into the upper tier
UnflaggedInfo_Inclusive(labelName, uniqueValues) ==
  IF uniqueValues >= 100
  THEN [Name |-> labelName, EstimatedValues |-> uniqueValues,
        CardinalityRisk |-> "MEDIUM", IsHighCardinality |-> FALSE,
        RecommendedAction |->
          Sprintf("Review %s label - %d unique values is high",
                  labelName, NoPattern, ToInt(uniqueValues))]
  ELSE IF uniqueValues >= 20
  THEN [Name |-> labelName, EstimatedValues |-> uniqueValues,
        CardinalityRisk |-> "LOW-MEDIUM", IsHighCardinality |-> FALSE,
        RecommendedAction |->
          Sprintf("Monitor %s label - %d unique values",
                  labelName, NoPattern, ToInt(uniqueValues))]
  ELSE [Name |-> labelName, EstimatedValues |-> uniqueValues,
        CardinalityRisk |-> "LOW", IsHighCardinality |-> FALSE,
        RecommendedAction |->
          Sprintf("Good cardinality", <<>>, NoPattern, ToInt(0))]

\* the tier of a label that matched no pattern
UnflaggedInfo(labelName, uniqueValues) ==
  IF uniqueValues > 100
  THEN [Name |-> labelName, EstimatedValues |-> uniqueValues,
        CardinalityRisk |-> "MEDIUM", IsHighCardinality |-> FALSE,
        RecommendedAction |->
          Sprintf("Review %s label - %d unique values is high",
                  labelName, NoPattern, ToInt(uniqueValues))]
  ELSE IF uniqueValues > 20
  THEN [Name |-> labelName, EstimatedValues |-> uniqueValues,
        CardinalityRisk |-> "LOW-MEDIUM", IsHighCardinality |-> FALSE,
        RecommendedAction |->
          Sprintf("Monitor %s label - %d unique values",
                  labelName, NoPattern, ToInt(uniqueValues))]
  ELSE [Name |-> labelName, EstimatedValues |-> uniqueValues,
        CardinalityRisk |-> "LOW", IsHighCardinality |-> FALSE,
        RecommendedAction |->
          Sprintf("Good cardinality", <<>>, NoPattern, ToInt(0))]

\* the label that matched the pattern called patternName
FlaggedInfo(labelName, uniqueValues, patternName) ==
  [Name |-> labelName, EstimatedValues |-> uniqueValues,
   CardinalityRisk |-> "HIGH", IsHighCardinality |-> TRUE,
   RecommendedAction |->
     Sprintf("Remove %s label (detected as %s) - unbounded cardinality",
             labelName, patternName, ToInt(0))]

\* RiskAfter that forgets the matches of the labels visited before
RiskAfter_LastLabelOnly(before, flagged) == flagged

\* hasHighCardinalityRisk after a label: set on a match, never cleared
RiskAfter(before, flagged) == before \/ flagged

\* AnalyzeLabel that appends the label's recommended action to the findings
\* whether a pattern matched or not
AnalyzeLabel_FindingPerLabel(acc, labelName, values, patternOrder) ==
  LET uniqueValues == Cardinality(values)
      patternName  == FirstMatch(patternOrder, labelName)
      flagged      == patternName # NoPattern
      info == IF flagged THEN FlaggedInfo(labelName, uniqueValues, patternName)
              ELSE UnflaggedInfo(labelName, uniqueValues)
  IN  [totalCardinality |-> MulInt(acc.totalCardinality, uniqueValues),
       hasHighCardinalityRisk |-> RiskAfter(acc.hasHighCardinalityRisk, flagged),
       HighCardinalityRisks |->
         Append(acc.HighCardinalityRisks, info.RecommendedAction),
       Warnings |->
         IF ~flagged /\ uniqueValues > 100
         THEN Append(acc.Warnings, info.RecommendedAction)
         ELSE acc.Warnings,
       LabelAnalysis |->
         (labelName :> info) @@ acc.LabelAnalysis]

\* one iteration of the loop over labelCounts
AnalyzeLabel(acc, labelName, values, patternOrder) ==
  LET uniqueValues == Cardinality(values)
      patternName  == FirstMatch(patternOrder, labelName)
      flagged      == patternName # NoPattern
      info == IF flagged THEN FlaggedInfo(labelName, uniqueValues, patternName)
              ELSE UnflaggedInfo(labelName, uniqueValues)
  IN  [totalCardinality |-> MulInt(acc.totalCardinality, uniqueValues),
       hasHighCardinalityRisk |-> RiskAfter(acc.hasHighCardinalityRisk, flagged),
       HighCardinalityRisks |->
         IF flagged THEN Append(acc.HighCardinalityRisks, info.RecommendedAction)
         ELSE acc.HighCardinalityRisks,
       Warnings |->
         IF ~flagged /\ uniqueValues > 100
         THEN Append(acc.Warnings, info.RecommendedAction)
         ELSE acc.Warnings,
       LabelAnalysis |->
         (labelName :> info) @@ acc.LabelAnalysis]

RECURSIVE AnalyzeLoop(_, _, _, _)
AnalyzeLoop(acc, counts, labelOrder, patternOrder) ==
  IF labelOrder = <<>> THEN acc
  ELSE AnalyzeLoop(AnalyzeLabel(acc, Head(labelOrder), counts[Head(labelOrder)],
                                patternOrder),
                   counts, Tail(labelOrder), patternOrder)

\* LevelOf with the breakpoints taken into the lower level
LevelOf_Inclusive(totalCardinality) ==
  IF LessThan(totalCardinality, lowCardinalityThreshold + 1) THEN "Low"
  ELSE IF LessThan(totalCardinality, mediumCardinalityThreshold + 1) THEN "Medium"
  ELSE IF LessThan(totalCardinality, highCardinalityThreshold + 1) THEN "High"
  ELSE "Very High"

\* LevelOf that calls the top level of the product path CRITICAL
LevelOf_TopCritical(totalCardinality) ==
  IF LessThan(totalCardinality, lowCardinalityThreshold) THEN "Low"
  ELSE IF LessThan(totalCardinality, mediumCardinalityThreshold) THEN "Medium"
  ELSE IF LessThan(totalCardinality, highCardinalityThreshold) THEN "High"
  ELSE "CRITICAL"

\* the overall level and the warnings of the product path
LevelOf(totalCardinality) ==
  IF LessThan(totalCardinality, lowCardinalityThreshold) THEN "Low"
  ELSE IF LessThan(totalCardinality, mediumCardinalityThreshold) THEN "Medium"
  ELSE IF LessThan(totalCardinality, highCardinalityThreshold) THEN "High"
  ELSE "Very High"

LevelWarnings(totalCardinality) ==
  IF LessThan(totalCardinality, mediumCardinalityThreshold) THEN <<>>
  ELSE IF LessThan(totalCardinality, highCardinalityThreshold)
  THEN <<Sprintf("High cardinality: ~%d series", <<>>, NoPattern, totalCardinality)>>
  ELSE <<Sprintf("Very high cardinality: ~%d series - consider reducing labels",
                 <<>>, NoPattern, totalCardinality)>>

UnboundedWarning ==
  Sprintf("Unbounded cardinality detected - could create millions of series",
          <<>>, NoPattern, ToInt(0))

\* WithMemory that renders the memory but leaves MemoryEstimateBytes unset
WithMemory_HumanOnly(a) ==
  LET bytes == MulInt(a.EstimatedSeries, memoryPerSeriesBytes)
  IN  [a EXCEPT !.MemoryEstimateHuman = formatBytes(bytes)]

\* memory = int64(EstimatedSeries) * memoryPerSeriesBytes, and its rendering
WithMemory(a) ==
  LET bytes == MulInt(a.EstimatedSeries, memoryPerSeriesBytes)
  IN  [a EXCEPT !.MemoryEstimateBytes = bytes,
                !.MemoryEstimateHuman = formatBytes(bytes)]

EmptyAnalysis ==
  [EstimatedSeries |-> ToInt(1),
   MemoryEstimateBytes |-> ToInt(memoryPerSeriesBytes),
   MemoryEstimateHuman |-> formatBytes(ToInt(memoryPerSeriesBytes)),
   CardinalityLevel |-> "Low",
   HighCardinalityRisks |-> <<>>,
   LabelAnalysis |-> <<>>,
   Warnings |-> <<>>]

\* Analyze(allLabels).  labelOrder is the order in which the range over the
\* labelCounts map visits its keys, patternOrder the order in which the range
\* over highCardinalityPatterns visits the table: Go fixes neither.
Analyze(labelMaps, labelOrder, patternOrder) ==
  IF Len(labelMaps) = 0 THEN EmptyAnalysis
  ELSE
    LET counts == labelCounts(labelMaps)
        acc == AnalyzeLoop([totalCardinality |-> ToInt(1),
                            hasHighCardinalityRisk |-> FALSE,
                            HighCardinalityRisks |-> <<>>,
                            Warnings |-> <<>>,
                            LabelAnalysis |-> <<>>],
                           counts, labelOrder, patternOrder)
        base == [EstimatedSeries |-> ToInt(0),
                 MemoryEstimateBytes |-> ToInt(0),
                 MemoryEstimateHuman |-> formatBytes(ToInt(0)),
                 CardinalityLevel |-> "",
                 HighCardinalityRisks |-> acc.HighCardinalityRisks,
                 LabelAnalysis |-> acc.LabelAnalysis,
                 Warnings |-> acc.Warnings]
    IN  IF acc.hasHighCardinalityRisk
        THEN WithMemory([base EXCEPT
                 !.EstimatedSeries = ToInt(unboundedSeries),
                 !.CardinalityLevel = "CRITICAL",
                 !.Warnings = Append(acc.Warnings, UnboundedWarning)])
        ELSE WithMemory([base EXCEPT
                 !.EstimatedSeries = acc.totalCardinality,
                 !.CardinalityLevel = LevelOf(acc.totalCardinality),
                 !.Warnings = acc.Warnings \o LevelWarnings(acc.totalCardinality)])

----------------------------------------------------------------------------
(* metrics: text helpers (package strings) *)

\* white space: what strings.TrimSpace strips and \s matches, on ASCII
SpaceChars == {" ", "\t", "\n", "\r", "\f"}
IsSpace(c) == c \in SpaceChars

\* strings.TrimSpace
TrimSpace(s) ==
  LET keep == {j \in DOMAIN s : ~IsSpace(s[j])}
  IN  IF keep = {} THEN <<>>
      ELSE SubSeq(s, CHOOSE a \in keep : \A b \in keep : a <= b,
                     CHOOSE a \in keep : \A b \in keep : b <= a)

\* strings.Split(s, sep) for a one-character sep: always at least one piece
Split(s, sep) ==
  LET at == {j \in DOMAIN s : s[j] = sep}
      \* position of the k-th separator; 0 and Len(s)+1 fence the ends
      pos(k) == IF k = 0 THEN 0
                ELSE IF k > Cardinality(at) THEN Len(s) + 1
                ELSE CHOOSE j \in at : Cardinality({q \in at : q < j}) = k - 1
  IN  [k \in 1..(Cardinality(at) + 1) |-> SubSeq(s, pos(k - 1) + 1, pos(k) - 1)]

\* strings.HasPrefix(s, "#")
HasPrefix(s, c) == s # <<>> /\ s[1] = c

\* strings.Trim(s, cutset) for a one-character cutset
Trim(s, c) ==
  LET keep == {j \in DOMAIN s : s[j] # c}
  IN  IF keep = {} THEN <<>>
      ELSE SubSeq(s, CHOOSE a \in keep : \A b \in keep : a <= b,
                     CHOOSE a \in keep : \A b \in keep : b <= a)

\* strings.SplitN(s, "=", 2): one part when s holds no "=", otherwise the
\* text before the first "=" and the text after it
SplitN2(s, c) ==
  LET at == {j \in DOMAIN s : s[j] = c}
  IN  IF at = {} THEN <<s>>
      ELSE LET f == CHOOSE a \in at : \A b \in at : a <= b
           IN  <<SubSeq(s, 1, f - 1), SubSeq(s, f + 1, Len(s))>>

----------------------------------------------------------------------------
(* metrics: the two line forms *)

Letters == {UpperCase[j] : j \in 1..26} \cup {LowerCase[j] : j \in 1..26}
Digits == {DigitChars[j] : j \in 1..10}
\* [a-zA-Z_:] and [a-zA-Z0-9_:]
NameStartChars == Letters \cup {"_", ":"}
NameChars == NameStartChars \cup Digits
\* [0-9.eE+-]
ValueChars == Digits \cup {".", "e", "E", "+", "-"}

\* length of the longest run of characters of the class that starts at from
RunLen(s, from, class) ==
  CHOOSE n \in 0..(Len(s) + 1 - from) :
    /\ \A j \in from..(from + n - 1) : s[j] \in class
    /\ from + n > Len(s) \/ s[from + n] \notin class

\* length of the metric name the line starts with (0: none)
NameLen(line) ==
  IF line # <<>> /\ line[1] \in NameStartChars THEN RunLen(line, 1, NameChars) ELSE 0

NoMatch == [ok |-> FALSE, name |-> <<>>, labels |-> <<>>, value |-> <<>>]

\* metricWithLabelsRegex.FindStringSubmatch(line):
\*   ^(name)\{([^}]*)\}(?:\s+([0-9.eE+-]+))?     (not anchored at the end)
metricWithLabelsRegex(line) ==
  LET n == NameLen(line)
      closing == {j \in DOMAIN line : j > n + 1 /\ line[j] = "}"}
  IN  IF n = 0 \/ n + 1 > Len(line) \/ line[n + 1] # "{" \/ closing = {}
      THEN NoMatch
      ELSE LET close == CHOOSE a \in closing : \A b \in closing : a <= b
               ws == RunLen(line, close + 1, SpaceChars)
               v  == RunLen(line, close + 1 + ws, ValueChars)
           IN  [ok |-> TRUE,
                name |-> SubSeq(line, 1, n),
                labels |-> SubSeq(line, n + 2, close - 1),
                value |-> IF ws > 0 /\ v > 0
                          THEN SubSeq(line, close + 1 + ws, close + ws + v)
                          ELSE <<>>]

\* simpleMetricRegex.FindStringSubmatch(line):
\*   ^(name)(?:\s+([0-9.eE+-]+))?$
simpleMetricRegex(line) ==
  LET n  == NameLen(line)
      ws == RunLen(line, n + 1, SpaceChars)
      v  == RunLen(line, n + 1 + ws, ValueChars)
  IN  IF n = 0 THEN NoMatch
      ELSE IF n = Len(line)
      THEN [ok |-> TRUE, name |-> line, labels |-> <<>>, value |-> <<>>]
      ELSE IF ws > 0 /\ v > 0 /\ n + ws + v = Len(line)
      THEN [ok |-> TRUE, name |-> SubSeq(line, 1, n), labels |-> <<>>,
            value |-> SubSeq(line, n + 1 + ws, n + ws + v)]
      ELSE NoMatch

----------------------------------------------------------------------------
(* metrics: splitLabels, parseLabels, parseLine *)

RECURSIVE splitLabelsLoop(_, _, _, _)
\* the scan of splitLabels over the rest of s: current is the builder,
\* pairs the pairs cut so far
splitLabelsLoop(s, inQuotes, current, pairs) ==
  IF s = <<>>
  THEN IF Len(current) > 0 THEN Append(pairs, current) ELSE pairs
  ELSE LET ch == Head(s)
       IN  IF ch = "\""
           THEN splitLabelsLoop(Tail(s), ~inQuotes, Append(current, ch), pairs)
           ELSE IF ch = ","
           THEN IF inQuotes
                THEN splitLabelsLoop(Tail(s), inQuotes, Append(current, ch), pairs)
                ELSE IF Len(current) > 0
                THEN splitLabelsLoop(Tail(s), inQuotes, <<>>, Append(pairs, current))
                ELSE splitLabelsLoop(Tail(s), inQuotes, current, pairs)
           ELSE splitLabelsLoop(Tail(s), inQuotes, Append(current, ch), pairs)

\* splitLabels that cuts at every comma, quoted or not
splitLabels_EveryComma(s) == SelectSeq(Split(s, ","), LAMBDA p : p # <<>>)

\* splitLabels(s): the pieces of s between the commas that stand outside
\* quotes, empty pieces dropped
splitLabels(s) == splitLabelsLoop(s, FALSE, <<>>, <<>>)

NoError == [msg |-> "", arg |-> <<>>, line |-> 0]
Errorf(msg, arg) == [msg |-> msg, arg |-> arg, line |-> 0]

\* the pair is accepted when it holds an "="
PairOk(pair) == Len(SplitN2(pair, "=")) = 2

RECURSIVE parseLabelsLoop(_, _)
\* the loop of parseLabels over the pairs not yet seen
parseLabelsLoop(labelPairs, labels) ==
  IF labelPairs = <<>> THEN [err |-> NoError, labels |-> labels]
  ELSE LET pair  == Head(labelPairs)
           parts == SplitN2(pair, "=")
       IN  IF ~PairOk(pair)
           THEN [err |-> Errorf("invalid label format: %s", pair), labels |-> <<>>]
           ELSE LET key   == TrimSpace(parts[1])
                    value == Trim(TrimSpace(parts[2]), "\"")
                IN  parseLabelsLoop(Tail(labelPairs), (key :> value) @@ labels)

\* parseLabels that visits the pairs from the last to the first, so that
\* the first occurrence of a key is the one kept
parseLabels_FirstWins(labelStr) ==
  IF labelStr = <<>> THEN [err |-> NoError, labels |-> <<>>]
  ELSE LET p == splitLabels(labelStr)
       IN  parseLabelsLoop([i \in 1..Len(p) |-> p[Len(p) + 1 - i]], <<>>)

parseLabels(labelStr) ==
  IF labelStr = <<>> THEN [err |-> NoError, labels |-> <<>>]
  ELSE parseLabelsLoop(splitLabels(labelStr), <<>>)

NoMetric == [Name |-> <<>>, Labels |-> <<>>, Value |-> <<>>, Raw |-> <<>>]

parseLine(line) ==
  LET withLabels == metricWithLabelsRegex(line)
      simple     == simpleMetricRegex(line)
  IN  IF withLabels.ok
      THEN LET parsed == parseLabels(withLabels.labels)
           IN  IF parsed.err # NoError
               THEN [err |-> parsed.err, metric |-> NoMetric]
               ELSE [err |-> NoError,
                     metric |-> [Name |-> withLabels.name,
                                 Labels |-> parsed.labels,
                                 Value |-> IF withLabels.value # <<>>
                                           THEN withLabels.value ELSE <<"0">>,
                                 Raw |-> line]]
      ELSE IF simple.ok
      THEN [err |-> NoError,
            metric |-> [Name |-> simple.name,
                        Labels |-> <<>>,
                        Value |-> IF simple.value # <<>>
                                  THEN simple.value ELSE <<"0">>,
                        Raw |-> line]]
      ELSE [err |-> Errorf("invalid metric format: %s", line), metric |-> NoMetric]

----------------------------------------------------------------------------
(* Arguments of Analyze *)

RECURSIVE SetToSeq(_)
SetToSeq(S) ==
  IF S = {} THEN <<>>
  ELSE LET x == CHOOSE y \in S : TRUE IN <<x>> \o SetToSeq(S \ {x})

Reverse(s) == [j \in 1..Len(s) |-> s[Len(s) + 1 - j]]

\* the orders a range over a map with key set S is modelled to take: all of
\* them for a small S, one order and its reverse for a large one
Orders(S) ==
  IF Cardinality(S) <= MaxPermLabels
  THEN {o \in [1..Cardinality(S) -> S] : \A a, b \in DOMAIN o : a # b => o[a] # o[b]}
  ELSE {SetToSeq(S), Reverse(SetToSeq(S))}

\* the orders of the pattern table: one order and its reverse, which differ
\* in the first match of every name that matches two patterns
PatternOrders ==
  {SetToSeq(DOMAIN highCardinalityPatterns),
   Reverse(SetToSeq(DOMAIN highCardinalityPatterns))}

RECURSIVE Dec(_)
\* the decimal digits of a natural number, as text
Dec(n) == IF n < 10 THEN <<DigitChars[n + 1]>>
          ELSE Dec(n \div 10) \o <<DigitChars[(n % 10) + 1]>>

Max(a, b) == IF a >= b THEN a ELSE b
Min(a, b) == IF a <= b THEN a ELSE b

\* label names of the generated samples: two that match no pattern and two
\* that match one (Path by case folding)
PlainNames == {<<"m","e","t","h","o","d">>, <<"r","e","g","i","o","n">>}
RiskyNames == {<<"u","s","e","r","_","i","d">>, <<"P","a","t","h">>}
PlainCounts == {0, 1, 10, 20, 21, 99, 100, 101}
RiskyCounts == {0, 2, 101}

\* Samples in which label l takes exactly c[l] distinct values (c[l] = 0: the
\* label is absent).  Sample j gives l the value min(j, c[l]); when sparse,
\* the samples after the c[l]-th do not carry l at all.
MixedSamples(c, sparse, atLeast) ==
  LET S == {l \in DOMAIN c : c[l] > 0}
      n == Max(atLeast, IF S = {} THEN 0
                        ELSE CHOOSE m \in {c[l] : l \in S} : \A l \in S : c[l] <= m)
  IN  [j \in 1..n |->
         [l \in {k \in S : ~sparse \/ j <= c[k]} |-> Dec(Min(j, c[l]))]]

\* distinct values per label of the wide samples: 16 labels of 16 values
\* make a product of 2^64
WideCounts == {1, 2, 16}

\* Samples that all carry the same k labels, sample j giving each the value j
WideSamples(k, n) ==
  [j \in 1..n |-> [l \in {<<"l">> \o Dec(q) : q \in 1..k} |-> Dec(j)]]

\* the label names an alternative of a pattern matches, in lower case: the
\* optional underscore left out, and put in
Words(alt) ==
  LET at == {j \in DOMAIN alt : alt[j] = "_?"}
  IN  IF at = {} THEN {alt}
      ELSE LET u == CHOOSE j \in at : TRUE
           IN  {SubSeq(alt, 1, u - 1) \o SubSeq(alt, u + 1, Len(alt)),
                [alt EXCEPT ![u] = "_"]}

\* every lower-case label name some pattern of the table matches
PatternNames ==
  UNION {Words(alt) :
           alt \in UNION {highCardinalityPatterns[p] :
                            p \in DOMAIN highCardinalityPatterns}}

\* one sample with one label, for each name a pattern matches
PatternNameSamples == {<<[l \in {w} |-> Dec(1)]>> : w \in PatternNames}

AnalyzeInputs ==
  {MixedSamples(cp @@ cr, sparse, atLeast) :
     cp \in [PlainNames -> PlainCounts], cr \in [RiskyNames -> RiskyCounts],
     sparse \in BOOLEAN, atLeast \in 0..1}
  \cup {WideSamples(k, n) : k \in 0..MaxLabels, n \in WideCounts}
  \cup PatternNameSamples

----------------------------------------------------------------------------
(* Analyze called on its own *)

NoResult == [status |-> "none", metrics |-> <<>>, err |-> NoError]

\* a request without the form field metrics
NoRequest == [hasMetrics |-> FALSE, Metrics |-> <<>>]

NilAnalysis ==
  [EstimatedSeries |-> ToInt(0),
   MemoryEstimateBytes |-> ToInt(0),
   MemoryEstimateHuman |-> formatBytes(ToInt(0)),
   CardinalityLevel |-> "",
   HighCardinalityRisks |-> <<>>,
   LabelAnalysis |-> <<>>,
   Warnings |-> <<>>]

InitAnalyze ==
  /\ input = <<>>
  /\ lines = <<>>
  /\ idx = 0
  /\ metrics = <<>>
  /\ result = NoResult
  /\ pc = "analyze"
  /\ allLabels \in AnalyzeInputs
  /\ analysis = NilAnalysis
  /\ request = NoRequest
  /\ responses = <<>>
  /\ llmCalls = <<>>

AnalyzeCall ==
  /\ pc = "analyze"
  /\ \E labelOrder \in Orders(DOMAIN labelCounts(allLabels)),
        patternOrder \in PatternOrders :
       analysis' = Analyze(allLabels, labelOrder, patternOrder)
  /\ pc' = "analyzed"
  /\ UNCHANGED <<input, lines, idx, metrics, result, allLabels>>
  /\ UNCHANGED handlerVars

NextAnalyze == AnalyzeCall

SpecAnalyze == InitAnalyze /\ [][NextAnalyze]_vars

----------------------------------------------------------------------------
(* Analyze called on a sample list, and again on the list with one more
   sample *)

\* distinct values of the last label of the skewed samples: 15 labels of 16
\* values and one of 7 make a product of 7 * 2^60, one value more 2^63
SkewCounts == {1, 7}

\* Samples that all carry the same k labels, sample j giving each the value
\* j, but the last label the value min(j, m)
SkewSamples(k, n, m) ==
  [j \in 1..n |->
     [l \in {<<"l">> \o Dec(q) : q \in 1..k} |->
        IF l = <<"l">> \o Dec(k) THEN Dec(Min(j, m)) ELSE Dec(j)]]

\* distinct values per label of the mixed samples that get extended
ExtendCounts == {0, 1, 20, 99}

ExtendInputs ==
  {MixedSamples(cp @@ cr, FALSE, 0) :
     cp \in [PlainNames -> ExtendCounts], cr \in [RiskyNames -> {0, 2}]}
  \cup {SkewSamples(k, n, m) :
          k \in 1..MaxLabels, n \in WideCounts, m \in SkewCounts \cup WideCounts}

\* a value no sample of the inputs holds
NewValue == <<"n">>

\* The samples a list is extended with: one that gives every label of the
\* list a new value, and one for each label (for one label of a list of
\* many) that gives that label alone a new value
Extensions(labelMaps) ==
  LET names == DOMAIN labelCounts(labelMaps)
      last  == {l \in names : Cardinality(labelCounts(labelMaps)[l]) < Len(labelMaps)}
      alone == IF Cardinality(names) <= MaxPermLabels THEN names
               ELSE IF last # {} THEN last
               ELSE {CHOOSE l \in names : TRUE}
  IN  {[l \in names |-> NewValue]} \cup {[l \in {k} |-> NewValue] : k \in alone}

InitExtend ==
  /\ input = <<>>
  /\ lines = <<>>
  /\ idx = 0
  /\ metrics = <<>>
  /\ result = NoResult
  /\ pc = "analyze"
  /\ allLabels \in ExtendInputs
  /\ analysis = NilAnalysis
  /\ request = NoRequest
  /\ responses = <<>>
  /\ llmCalls = <<>>

\* Analyze called on the list with one more sample
AnalyzeExtended ==
  /\ pc = "analyzed"
  /\ \E s \in Extensions(allLabels) :
       /\ allLabels' = Append(allLabels, s)
       /\ \E labelOrder \in Orders(DOMAIN labelCounts(allLabels')),
             patternOrder \in PatternOrders :
            analysis' = Analyze(allLabels', labelOrder, patternOrder)
  /\ pc' = "extended"
  /\ UNCHANGED <<input, lines, idx, metrics, result>>
  /\ UNCHANGED handlerVars

NextExtend ==
  \/ AnalyzeCall
  \/ AnalyzeExtended

SpecExtend == InitExtend /\ [][NextExtend]_vars

----------------------------------------------------------------------------
(* Arguments of Parse *)

\* most lines of an input text
MaxLines == 2

\* the lines the input texts are made of:
\*   (empty)                blank
\*                          white space only
\*   # c                    comment
\*   up 1                   
\*    up                    no value, leading space
\*   m abc                  neither form
\*   m{a="x"                no closing brace: neither form
\*   m{a="x"} 1             
\*   m{a="x",b="y"} 2       
\*   m{a="y"} -1e3          
\*   m{a=x} 1               unquoted value
\*   m{a} 1                 no = in the pair
\*   m{a="x} 1              unbalanced quote
\*   m{a="x,b="y"} 1        unbalanced quote, comma inside
\*   m{a="x,y"} 1           comma inside a quoted value
\*   m{a="x,y",b="z"} 1     two pairs, a comma inside the first value
\*   m{a="x",a="y"}         duplicate key, no value
\*   m{ts="x"} 1            a label name that matches a pattern
\*   m{a="b"} abc           trailing text after the label list
\*   m{a="b"}xyz            
\*   m{} 1                  empty label list
\*   m 1.2.3                value characters that form no number
LineSet ==
  {<<>>,
   <<" ">>,
   <<"#"," ","c">>,
   <<"u","p"," ","1">>,
   <<" ","u","p">>,
   <<"m"," ","a","b","c">>,
   <<"m","{","a","=","\"","x","\"">>,
   <<"m","{","a","=","\"","x","\"","}"," ","1">>,
   <<"m","{","a","=","\"","x","\"",",","b","=","\"","y","\"","}"," ","2">>,
   <<"m","{","a","=","\"","y","\"","}"," ","-","1","e","3">>,
   <<"m","{","a","=","x","}"," ","1">>,
   <<"m","{","a","}"," ","1">>,
   <<"m","{","a","=","\"","x","}"," ","1">>,
   <<"m","{","a","=","\"","x",",","b","=","\"","y","\"","}"," ","1">>,
   <<"m","{","a","=","\"","x",",","y","\"","}"," ","1">>,
   <<"m","{","a","=","\"","x",",","y","\"",",","b","=","\"","z","\"","}"," ","1">>,
   <<"m","{","a","=","\"","x","\"",",","a","=","\"","y","\"","}">>,
   <<"m","{","t","s","=","\"","x","\"","}"," ","1">>,
   <<"m","{","a","=","\"","b","\"","}"," ","a","b","c">>,
   <<"m","{","a","=","\"","b","\"","}","x","y","z">>,
   <<"m","{","}"," ","1">>,
   <<"m"," ","1",".","2",".","3">>}

RECURSIVE Join(_)
\* the lines joined by newlines
Join(ls) == IF Len(ls) = 0 THEN <<>>
            ELSE IF Len(ls) = 1 THEN ls[1]
            ELSE ls[1] \o <<"\n">> \o Join(Tail(ls))

ParseInputs ==
  {Join(ls) : ls \in UNION {[1..n -> LineSet] : n \in 0..MaxLines}}

----------------------------------------------------------------------------
(* metrics.Parse *)

Init ==
  /\ input \in ParseInputs
  /\ lines = <<>>
  /\ idx = 0
  /\ metrics = <<>>
  /\ result = NoResult
  /\ pc = "start"
  /\ allLabels = <<>>
  /\ analysis = NilAnalysis
  /\ request = NoRequest
  /\ responses = <<>>
  /\ llmCalls = <<>>

\* lines := strings.Split(strings.TrimSpace(input), "\n")
ParseSplit ==
  /\ pc = "start"
  /\ lines' = Split(TrimSpace(input), "\n")
  /\ idx' = 0
  /\ pc' = "loop"
  /\ UNCHANGED <<input, metrics, result, allLabels, analysis>>
  /\ UNCHANGED handlerVars

\* the line the loop is at, trimmed
CurrentLine == TrimSpace(lines[idx + 1])

\* IsSkipped that lets comment lines through to the decoder
IsSkipped_BlankOnly(line) == line = <<>>

\* line == "" || strings.HasPrefix(line, "#")
IsSkipped(line) == line = <<>> \/ HasPrefix(line, "#")

\* a blank or comment line: continue
ParseSkip ==
  /\ pc = "loop"
  /\ idx < Len(lines)
  /\ IsSkipped(CurrentLine)
  /\ idx' = idx + 1
  /\ UNCHANGED <<input, lines, metrics, result, pc, allLabels, analysis>>
  /\ UNCHANGED handlerVars

\* a line that decodes: append the sample
ParseAppend ==
  /\ pc = "loop"
  /\ idx < Len(lines)
  /\ ~IsSkipped(CurrentLine)
  /\ parseLine(CurrentLine).err = NoError
  /\ metrics' = Append(metrics, parseLine(CurrentLine).metric)
  /\ idx' = idx + 1
  /\ UNCHANGED <<input, lines, result, pc, allLabels, analysis>>
  /\ UNCHANGED handlerVars

\* fmt.Errorf("line %d: %w", i+1, err)
LineError(i, err) == [err EXCEPT !.line = i + 1]

\* ParseFail that returns the samples decoded so far along with the error
ParseFail_KeepsSamples ==
  /\ pc = "loop"
  /\ idx < Len(lines)
  /\ ~IsSkipped(CurrentLine)
  /\ parseLine(CurrentLine).err # NoError
  /\ result' = [status |-> "error", metrics |-> metrics,
                err |-> LineError(idx, parseLine(CurrentLine).err)]
  /\ pc' = "done"
  /\ UNCHANGED <<input, lines, idx, metrics, allLabels, analysis>>
  /\ UNCHANGED handlerVars

\* a line that does not decode: return nil and the error
ParseFail ==
  /\ pc = "loop"
  /\ idx < Len(lines)
  /\ ~IsSkipped(CurrentLine)
  /\ parseLine(CurrentLine).err # NoError
  /\ result' = [status |-> "error", metrics |-> <<>>,
                err |-> LineError(idx, parseLine(CurrentLine).err)]
  /\ pc' = "done"
  /\ UNCHANGED <<input, lines, idx, metrics, allLabels, analysis>>
  /\ UNCHANGED handlerVars

\* the loop is over with no sample
ParseEmpty ==
  /\ pc = "loop"
  /\ idx = Len(lines)
  /\ Len(metrics) = 0
  /\ result' = [status |-> "error", metrics |-> <<>>,
                err |-> Errorf("no valid metrics found", <<>>)]
  /\ pc' = "done"
  /\ UNCHANGED <<input, lines, idx, metrics, allLabels, analysis>>
  /\ UNCHANGED handlerVars

\* the loop is over with samples: analyse their labels and return both
ParseAnalyze ==
  /\ pc = "loop"
  /\ idx = Len(lines)
  /\ Len(metrics) > 0
  /\ allLabels' = [j \in 1..Len(metrics) |-> metrics[j].Labels]
  /\ \E labelOrder \in Orders(DOMAIN labelCounts(allLabels')),
        patternOrder \in PatternOrders :
       analysis' = Analyze(allLabels', labelOrder, patternOrder)
  /\ result' = [status |-> "ok", metrics |-> metrics, err |-> NoError]
  /\ pc' = "done"
  /\ UNCHANGED <<input, lines, idx, metrics>>
  /\ UNCHANGED handlerVars

Next ==
  \/ ParseSplit
  \/ ParseSkip
  \/ ParseAppend
  \/ ParseFail
  \/ ParseEmpty
  \/ ParseAnalyze

Spec == Init /\ [][Next]_vars

----------------------------------------------------------------------------
(* handlers.Evaluate: bind the form, Parse its text, call the LLM client,
   render.  The steps of Parse are those of the model of Parse above; the
   LLM back end is outside the program and answers as it pleases. *)

\* the texts of the requests.  The handler looks at nothing of a text but
\* whether it is empty and whether Parse fails on it, so the texts are short:
\*   (empty)      does not bind
\*   #            Parse fails: no valid metrics
\*   m            one sample
\*   m 1          one sample
\*   up           one sample
\*   m{}          one sample, empty label list
\*   1            Parse fails: neither form
\*   m{a}         Parse fails: a label pair without "="
\*   # / m        a comment, then a sample
\*   m / m        two samples
\*   m / up       two samples
\*   m / 1        a sample, then a line of neither form
EvalTexts ==
  {<<>>,
   <<"#">>,
   <<"m">>,
   <<"m"," ","1">>,
   <<"u","p">>,
   <<"m","{","}">>,
   <<"1">>,
   <<"m","{","a","}">>,
   <<"#","\n","m">>,
   <<"m","\n","m">>,
   <<"m","\n","u","p">>,
   <<"m","\n","1">>}

\* a request without the field, and requests whose field holds a text
EvaluateRequests ==
  {NoRequest} \cup {[hasMetrics |-> TRUE, Metrics |-> t] : t \in EvalTexts}

\* c.ShouldBind(&req) returns no error: the field tagged binding:"required"
\* is there and is not the empty string
ShouldBind(req) == req.hasMetrics /\ req.Metrics # <<>>

\* c.HTML(code, name, ...)
HTML(code, name) == [status |-> code, name |-> name]

\* how a call of llmClient.Evaluate ends: the POST fails (the client's
\* timeout included), the back end answers with a status other than 200,
\* the body does not decode, or an evaluation is returned (json.Marshal of
\* a struct of two strings and a bool does not fail)
LLMOutcomes == {"post failed", "status not 200", "decode failed", "evaluation"}

\* the error Client.Evaluate returns on the outcome, "" for nil
ClientEvaluateErr(outcome) ==
  IF outcome = "post failed" THEN "failed to call Ollama API: %w"
  ELSE IF outcome = "status not 200" THEN "Ollama API returned status %d"
  ELSE IF outcome = "decode failed" THEN "failed to decode response: %w"
  ELSE ""

InitEvaluate ==
  /\ request \in EvaluateRequests
  /\ input = <<>>
  /\ lines = <<>>
  /\ idx = 0
  /\ metrics = <<>>
  /\ result = NoResult
  /\ pc = "bind"
  /\ allLabels = <<>>
  /\ analysis = NilAnalysis
  /\ responses = <<>>
  /\ llmCalls = <<>>

\* ShouldBind fails: 400 and return
EvalBindFail ==
  /\ pc = "bind"
  /\ ~ShouldBind(request)
  /\ responses' = Append(responses, HTML(400, "error.html"))
  /\ pc' = "returned"
  /\ UNCHANGED <<input, lines, idx, metrics, result, allLabels, analysis,
                 request, llmCalls>>

\* ShouldBind succeeds: metrics.Parse(req.Metrics) is entered
EvalParse ==
  /\ pc = "bind"
  /\ ShouldBind(request)
  /\ input' = request.Metrics
  /\ pc' = "start"
  /\ UNCHANGED <<lines, idx, metrics, result, allLabels, analysis,
                 request, responses, llmCalls>>

\* EvalParseFail without its return: the error page is written and the
\* handler goes on to call the LLM client
EvalParseFail_NoReturn ==
  /\ pc = "done"
  /\ result.status = "error"
  /\ responses' = Append(responses, HTML(400, "error.html"))
  /\ \E outcome \in LLMOutcomes : llmCalls' = Append(llmCalls, outcome)
  /\ pc' = "called"
  /\ UNCHANGED <<input, lines, idx, metrics, result, allLabels, analysis,
                 request>>

\* Parse returned an error: 400 with the error's text, and return
EvalParseFail ==
  /\ pc = "done"
  /\ result.status = "error"
  /\ responses' = Append(responses, HTML(400, "error.html"))
  /\ pc' = "returned"
  /\ UNCHANGED <<input, lines, idx, metrics, result, allLabels, analysis,
                 request, llmCalls>>

\* Parse returned samples and a report: h.llmClient.Evaluate(parsed)
EvalCallLLM ==
  /\ pc = "done"
  /\ result.status = "ok"
  /\ \E outcome \in LLMOutcomes : llmCalls' = Append(llmCalls, outcome)
  /\ pc' = "called"
  /\ UNCHANGED <<input, lines, idx, metrics, result, allLabels, analysis,
                 request, responses>>

\* the LLM client returned an error: 500 and return
EvalLLMFail ==
  /\ pc = "called"
  /\ ClientEvaluateErr(llmCalls[Len(llmCalls)]) # ""
  /\ responses' = Append(responses, HTML(500, "error.html"))
  /\ pc' = "returned"
  /\ UNCHANGED <<input, lines, idx, metrics, result, allLabels, analysis,
                 request, llmCalls>>

\* the LLM client returned an evaluation: 200 with the result
EvalRender ==
  /\ pc = "called"
  /\ ClientEvaluateErr(llmCalls[Len(llmCalls)]) = ""
  /\ responses' = Append(responses, HTML(200, "result.html"))
  /\ pc' = "returned"
  /\ UNCHANGED <<input, lines, idx, metrics, result, allLabels, analysis,
                 request, llmCalls>>

NextEvaluate ==
  \/ EvalBindFail
  \/ EvalParse
  \/ ParseSplit
  \/ ParseSkip
  \/ ParseAppend
  \/ ParseFail
  \/ ParseEmpty
  \/ ParseAnalyze
  \/ EvalParseFail
  \/ EvalCallLLM
  \/ EvalLLMFail
  \/ EvalRender

\* The handler is one goroutine of straight-line code: every step that can
\* be taken is taken, and the call of the LLM client returns, by its
\* 120-second timeout at the latest.
SpecEvaluate == InitEvaluate /\ [][NextEvaluate]_vars /\ WF_vars(NextEvaluate)

----------------------------------------------------------------------------
(* Properties of Analyze *)

\* the label name matches some pattern of the table
Flagged(labelName) ==
  \E p \in DOMAIN highCardinalityPatterns :
     MatchString(highCardinalityPatterns[p], labelName)

LabelNames(labelMaps) == UNION {DOMAIN labelMaps[j] : j \in DOMAIN labelMaps}

DistinctValues(labelMaps, l) ==
  {labelMaps[j][l] : j \in {m \in DOMAIN labelMaps : l \in DOMAIN labelMaps[m]}}

AnyFlagged == \E l \in LabelNames(allLabels) : Flagged(l)

\* a machine integer as an exact integer: two's complement on ExactLimbs limbs
SignExtend(x) ==
  x \o [j \in 1..(ExactLimbs - WordLimbs) |->
          IF x[WordLimbs] >= 32768 THEN 65535 ELSE 0]

Exact(n) == MulSeq(<<1>> \o Zeros(ExactLimbs - 1), n, 0)

RECURSIVE ExactProductOver(_, _)
\* acc times the distinct-value counts of the labels in the sequence ls
ExactProductOver(acc, ls) ==
  IF ls = <<>> THEN acc
  ELSE ExactProductOver(
         MulSeq(acc, Cardinality(DistinctValues(allLabels, Head(ls))), 0),
         Tail(ls))

\* the product of the distinct-value counts of all labels present
ExactProduct == ExactProductOver(Exact(1), SetToSeq(LabelNames(allLabels)))

\* x < t, read off the report's number
Below(x, t) ==
  \/ x[4] >= 32768
  \/ x[4] = 0 /\ x[3] = 0 /\ x[2] = 0 /\ x[1] < t

\* a warning about the overall level: it names no label and is not the
\* unbounded-cardinality warning
IsLevelWarning(w) == w.label = <<>> /\ w # UnboundedWarning

WarningsNaming(l) == {j \in DOMAIN analysis.Warnings : analysis.Warnings[j].label = l}

\* C3: for a non-empty sample sequence with no label name matching a pattern,
\* EstimatedSeries is the product of the labels' distinct-value counts.
C3_SeriesIsProduct ==
  (pc = "analyzed" /\ Len(allLabels) > 0 /\ ~AnyFlagged)
    => SignExtend(analysis.EstimatedSeries) = ExactProduct

\* C4: in every report MemoryEstimateBytes is EstimatedSeries times 3000.
C4_MemoryIsSeriesTimesConstant ==
  pc = "analyzed"
    => SignExtend(analysis.MemoryEstimateBytes)
         = MulSeq(SignExtend(analysis.EstimatedSeries), 3000, 0)

\* C5: when some label name matches a pattern, EstimatedSeries is the
\* sentinel 1000000, the level is Critical and the unbounded-cardinality
\* warning is the last warning appended, whatever the distinct-value counts.
C5_FlaggedForcesSentinel ==
  (pc = "analyzed" /\ AnyFlagged)
    => /\ analysis.EstimatedSeries = <<16960, 15, 0, 0>>
       /\ analysis.CardinalityLevel = "CRITICAL"
       /\ analysis.Warnings # <<>>
       /\ analysis.Warnings[Len(analysis.Warnings)] = UnboundedWarning

C5_Witness ==
  /\ pc = "analyzed"
  /\ \E l \in LabelNames(allLabels) :
       Flagged(l) /\ Cardinality(DistinctValues(allLabels, l)) = 2
  /\ \E l \in LabelNames(allLabels) :
       ~Flagged(l) /\ Cardinality(DistinctValues(allLabels, l)) > 100
  /\ analysis.CardinalityLevel = "CRITICAL"

AllAtMost20 ==
  \A l \in LabelNames(allLabels) : Cardinality(DistinctValues(allLabels, l)) <= 20

\* C6 as stated: when every label has at most 20 distinct values the level
\* is never Critical.
C6_Original ==
  (pc = "analyzed" /\ AllAtMost20) => analysis.CardinalityLevel # "CRITICAL"

\* C6, amended: when every label has at most 20 distinct values and no label
\* name matches a high-cardinality pattern, the level is never Critical.
C6_NeverCriticalUnflagged ==
  (pc = "analyzed" /\ AllAtMost20 /\ ~AnyFlagged)
    => analysis.CardinalityLevel # "CRITICAL"

C6_Witness ==
  /\ pc = "analyzed"
  /\ AllAtMost20 /\ ~AnyFlagged
  /\ LabelNames(allLabels) # {}
  /\ analysis.CardinalityLevel = "Very High"

\* C7: with no label flagged the level follows from EstimatedSeries alone:
\* below 100 Low, 100..999 Medium, 1000..9999 High, 10000 and above Very High.
C7_LevelByBreakpoints ==
  (pc = "analyzed" /\ ~AnyFlagged)
    => analysis.CardinalityLevel =
         IF Below(analysis.EstimatedSeries, 100) THEN "Low"
         ELSE IF Below(analysis.EstimatedSeries, 1000) THEN "Medium"
         ELSE IF Below(analysis.EstimatedSeries, 10000) THEN "High"
         ELSE "Very High"

C7_Witness ==
  /\ pc = "analyzed" /\ ~AnyFlagged
  /\ analysis.EstimatedSeries = <<1000, 0, 0, 0>>
  /\ analysis.CardinalityLevel = "High"

\* C8: with no label flagged, a level above Low comes with a level warning
\* carrying the series estimate, and level Low comes with none.
C8_LevelWarning ==
  (pc = "analyzed" /\ ~AnyFlagged)
    => IF analysis.CardinalityLevel = "Low"
       THEN \A j \in DOMAIN analysis.Warnings : ~IsLevelWarning(analysis.Warnings[j])
       ELSE \E j \in DOMAIN analysis.Warnings :
              /\ IsLevelWarning(analysis.Warnings[j])
              /\ analysis.Warnings[j].n = analysis.EstimatedSeries

\* C9: an unflagged label's tier follows from its distinct-value count: over
\* 100 MEDIUM with exactly one warning naming it, 21..100 LOW-MEDIUM, up to 20
\* LOW, neither of the latter with a warning; a label is HIGH iff flagged.
C9_TierByCount ==
  pc = "analyzed" =>
    \A l \in LabelNames(allLabels) :
      LET n == Cardinality(DistinctValues(allLabels, l))
          info == analysis.LabelAnalysis[l]
      IN  /\ (info.CardinalityRisk = "HIGH") <=> Flagged(l)
          /\ ~Flagged(l) =>
               /\ info.CardinalityRisk =
                    IF n > 100 THEN "MEDIUM"
                    ELSE IF n >= 21 THEN "LOW-MEDIUM" ELSE "LOW"
               /\ Cardinality(WarningsNaming(l)) = IF n > 100 THEN 1 ELSE 0

C9_Witness ==
  /\ pc = "analyzed"
  /\ \E l, k \in LabelNames(allLabels) :
       /\ ~Flagged(l) /\ Cardinality(DistinctValues(allLabels, l)) = 101
       /\ analysis.LabelAnalysis[l].CardinalityRisk = "MEDIUM"
       /\ ~Flagged(k) /\ Cardinality(DistinctValues(allLabels, k)) = 21
       /\ analysis.LabelAnalysis[k].CardinalityRisk = "LOW-MEDIUM"

\* C12: when no sample carries a label, EstimatedSeries is 1, the level is
\* Low, MemoryEstimateBytes is 3000 and the report holds no per-label entry,
\* no finding and no warning, whether the sample list is empty or not.
C12_LabelFreeReport ==
  (pc = "analyzed" /\ LabelNames(allLabels) = {})
    => /\ analysis.EstimatedSeries = <<1, 0, 0, 0>>
       /\ analysis.CardinalityLevel = "Low"
       /\ analysis.MemoryEstimateBytes = <<3000, 0, 0, 0>>
       /\ analysis.MemoryEstimateHuman = formatBytes(<<3000, 0, 0, 0>>)
       /\ DOMAIN analysis.LabelAnalysis = {}
       /\ analysis.HighCardinalityRisks = <<>>
       /\ analysis.Warnings = <<>>

\* Analyze has run on two samples that carry no label
C12_Witness ==
  /\ pc = "analyzed"
  /\ Len(allLabels) = 2
  /\ \A j \in DOMAIN allLabels : DOMAIN allLabels[j] = {}
  /\ analysis.EstimatedSeries = <<1, 0, 0, 0>>

\* x <= y for two machine integers, as signed numbers
SignedAtMost(x, y) ==
  LET kx == [x EXCEPT ![WordLimbs] = (x[WordLimbs] + 32768) % 65536]
      ky == [y EXCEPT ![WordLimbs] = (y[WordLimbs] + 32768) % 65536]
  IN  \/ kx = ky
      \/ \E i \in 1..WordLimbs :
           kx[i] < ky[i] /\ \A j \in (i + 1)..WordLimbs : kx[j] = ky[j]

\* the labels of the list to which the sample s gives a value the list does
\* not hold for them
GivenNewValue(labelMaps, s) ==
  {l \in LabelNames(labelMaps) \cap DOMAIN s :
     s[l] \notin DistinctValues(labelMaps, l)}

\* C15: when Analyze is called on a list and then on the list followed by a
\* sample that gives a label of the list a new value, the second report's
\* count for that label is no smaller than the first's and, unless one of
\* the two reports took the sentinel path, neither is its EstimatedSeries.
C15_NewValueNeverLowers ==
  [][(pc = "analyzed" /\ pc' = "extended")
       => LET s == allLabels'[Len(allLabels')]
          IN  GivenNewValue(allLabels, s) # {}
                => /\ \A l \in GivenNewValue(allLabels, s) :
                        analysis'.LabelAnalysis[l].EstimatedValues
                          >= analysis.LabelAnalysis[l].EstimatedValues
                   /\ (analysis.CardinalityLevel # "CRITICAL"
                         /\ analysis'.CardinalityLevel # "CRITICAL")
                        => SignedAtMost(analysis.EstimatedSeries,
                                        analysis'.EstimatedSeries)]_vars

\* the patterns of the table that match the label name
MatchingPatterns(labelName) ==
  {p \in DOMAIN highCardinalityPatterns :
     MatchString(highCardinalityPatterns[p], labelName)}

\* C16: a label name matches at most one pattern of the table, so that in
\* every report, whatever the order the table was iterated in, the label is
\* flagged exactly when a pattern matches it and every removal finding that
\* names it carries the tag of that one pattern.
C16_ClassificationDeterministic ==
  pc = "analyzed" =>
    \A l \in LabelNames(allLabels) :
      /\ Cardinality(MatchingPatterns(l)) <= 1
      /\ analysis.LabelAnalysis[l].IsHighCardinality = (MatchingPatterns(l) # {})
      /\ MatchingPatterns(l) # {}
           => analysis.LabelAnalysis[l].RecommendedAction.tag \in MatchingPatterns(l)
      /\ \A j \in DOMAIN analysis.HighCardinalityRisks :
           analysis.HighCardinalityRisks[j].label = l
             => analysis.HighCardinalityRisks[j].tag \in MatchingPatterns(l)

\* Analyze has flagged the label Path, with the tag url_path
C16_Witness ==
  /\ pc = "analyzed"
  /\ \E j \in DOMAIN analysis.HighCardinalityRisks :
       /\ analysis.HighCardinalityRisks[j].label = <<"P", "a", "t", "h">>
       /\ analysis.HighCardinalityRisks[j].tag = "url_path"

\* C17: the per-label map has one entry for each label name that occurs in
\* some sample, flagged or not, and no other entry; the entry carries the
\* label's name and the number of distinct values the label takes over all
\* the samples.
C17_OneEntryPerLabel ==
  pc = "analyzed" =>
    /\ DOMAIN analysis.LabelAnalysis = LabelNames(allLabels)
    /\ \A l \in LabelNames(allLabels) :
         /\ analysis.LabelAnalysis[l].Name = l
         /\ analysis.LabelAnalysis[l].EstimatedValues
              = Cardinality(DistinctValues(allLabels, l))

\* Analyze has run on ten samples with ten region values and the same
\* method value: region 10, method 1, series 10
C17_Witness ==
  /\ pc = "analyzed"
  /\ Len(allLabels) = 10
  /\ LabelNames(allLabels) = {<<"r","e","g","i","o","n">>, <<"m","e","t","h","o","d">>}
  /\ analysis.LabelAnalysis[<<"r","e","g","i","o","n">>].EstimatedValues = 10
  /\ analysis.LabelAnalysis[<<"m","e","t","h","o","d">>].EstimatedValues = 1
  /\ \A j \in DOMAIN allLabels : DOMAIN allLabels[j] = LabelNames(allLabels)
  /\ analysis.EstimatedSeries = <<10, 0, 0, 0>>

\* the findings of the report that are removal findings naming the label
RemovalFindings(l) ==
  {j \in DOMAIN analysis.HighCardinalityRisks :
     /\ analysis.HighCardinalityRisks[j].label = l
     /\ analysis.HighCardinalityRisks[j].format
          = "Remove %s label (detected as %s) - unbounded cardinality"}

C22_SeriesAndMemoryPositive ==
  pc = "analyzed" =>
    /\ ~Below(analysis.EstimatedSeries, 1)
    /\ ~Below(analysis.MemoryEstimateBytes, 3000)

\* x <= y for two exact natural numbers
ExactAtMost(x, y) ==
  \/ x = y
  \/ \E i \in 1..ExactLimbs :
       x[i] < y[i] /\ \A j \in (i + 1)..ExactLimbs : x[j] = y[j]

\* C23: when some label name matches a pattern, EstimatedSeries is no
\* smaller than the product of the distinct-value counts of the labels of
\* the input, and MemoryEstimateBytes no smaller than 3000 times that
\* product.
C23_SentinelNotBelowProduct ==
  (pc = "analyzed" /\ AnyFlagged)
    => /\ ExactAtMost(ExactProduct, SignExtend(analysis.EstimatedSeries))
       /\ ExactAtMost(MulSeq(ExactProduct, 3000, 0),
                      SignExtend(analysis.MemoryEstimateBytes))

----------------------------------------------------------------------------
(* Properties of Parse *)

\* the text is key="value": a key free of quotes, an "=", and a value
\* between two quotes that holds no quote itself
IsKeyQuotedValue(seg) ==
  LET t == TrimSpace(seg)
      eqs == {j \in DOMAIN t : t[j] = "="}
  IN  /\ eqs # {}
      /\ LET eq == CHOOSE a \in eqs : \A b \in eqs : a <= b
         IN  /\ eq > 1
             /\ Len(t) >= eq + 2
             /\ t[eq + 1] = "\"" /\ t[Len(t)] = "\""
             /\ \A j \in DOMAIN t : t[j] = "\"" => j \in {eq + 1, Len(t)}

\* the line is of the labelled form and a segment of its label list is
\* not key="value"
HasMalformedSegment(line) ==
  LET m == metricWithLabelsRegex(line)
  IN  /\ m.ok
      /\ \E j \in DOMAIN splitLabels(m.labels) :
           ~IsKeyQuotedValue(splitLabels(m.labels)[j])

\* the line is of the labelled form and its label list holds an odd number
\* of quote characters
HasUnbalancedQuotes(line) ==
  LET m == metricWithLabelsRegex(line)
  IN  /\ m.ok
      /\ Cardinality({j \in DOMAIN m.labels : m.labels[j] = "\""}) % 2 = 1

\* the line is of neither form
MatchesNeitherForm(line) ==
  ~metricWithLabelsRegex(line).ok /\ ~simpleMetricRegex(line).ok

\* a line Parse has to reject, for any of the reasons the decoder documents
MustBeRejected(line) ==
  \/ MatchesNeitherForm(line)
  \/ HasMalformedSegment(line)
  \/ HasUnbalancedQuotes(line)

\* k is the first line of ls that is neither blank nor a comment and that
\* has to be rejected
FirstRejected(ls, k) ==
  /\ k \in DOMAIN ls
  /\ ~IsSkipped(TrimSpace(ls[k])) /\ MustBeRejected(TrimSpace(ls[k]))
  /\ \A j \in 1..(k - 1) :
       IsSkipped(TrimSpace(ls[j])) \/ ~MustBeRejected(TrimSpace(ls[j]))

ReturnedNothing == result.metrics = <<>> /\ analysis = NilAnalysis

\* C1: a line whose label list holds a segment that is not key="value" makes
\* Parse return the invalid-label error with that line's number, and neither
\* samples nor a report.
C1_MalformedSegmentRejected ==
  pc = "done" =>
    \A k \in DOMAIN lines :
      (FirstRejected(lines, k) /\ HasMalformedSegment(TrimSpace(lines[k])))
        => /\ result.status = "error"
           /\ result.err.msg = "invalid label format: %s"
           /\ result.err.line = k
           /\ ReturnedNothing

\* C2: a label list with an odd number of quote characters makes decoding
\* fail with the invalid-label error, and no sample of a result comes from
\* such a label list.
C2_UnbalancedQuotesRejected ==
  pc = "done" =>
    /\ \A k \in DOMAIN lines :
         (FirstRejected(lines, k) /\ HasUnbalancedQuotes(TrimSpace(lines[k])))
           => /\ result.status = "error"
              /\ result.err.msg = "invalid label format: %s"
    /\ \A j \in DOMAIN result.metrics : ~HasUnbalancedQuotes(result.metrics[j].Raw)

\* C10: when the first line to reject is of neither form, Parse fails with
\* the invalid-format error, and the error's line number is the position of
\* that line in the raw input, blank and comment lines counted.
C10_InvalidFormatRawLine ==
  pc = "done" =>
    \A k \in DOMAIN Split(input, "\n") :
      (FirstRejected(Split(input, "\n"), k)
         /\ MatchesNeitherForm(TrimSpace(Split(input, "\n")[k])))
        => /\ result.status = "error"
           /\ result.err.msg = "invalid metric format: %s"
           /\ result.err.line = k

\* the raw line is blank or a comment
BlankOrComment(line) ==
  LET t == TrimSpace(line) IN t = <<>> \/ t[1] = "#"

\* Parse failed with the error of an input that holds no sample
InputEmpty ==
  result.status = "error" /\ result.err.msg = "no valid metrics found"

\* C11: Parse fails with the no-valid-metrics error exactly when every line
\* of the input is blank or a comment, the empty input included, and it then
\* returns neither samples nor a report.
C11_InputEmptyIffNoSampleLine ==
  pc = "done" =>
    /\ InputEmpty <=> \A k \in DOMAIN Split(input, "\n") :
                        BlankOrComment(Split(input, "\n")[k])
    /\ InputEmpty => ReturnedNothing

\* Parse has returned the no-valid-metrics error for a comment and a blank
\* line
C11_Witness ==
  /\ pc = "done" /\ InputEmpty
  /\ Len(Split(input, "\n")) = 2
  /\ \E k \in DOMAIN Split(input, "\n") : HasPrefix(Split(input, "\n")[k], "#")

\* the commas of s that stand outside quotes: an even number of quote
\* characters before them
OuterCommas(s) ==
  {j \in DOMAIN s :
     s[j] = "," /\ Cardinality({i \in 1..j : s[i] = "\""}) % 2 = 0}

\* the non-empty pieces of s between two neighbouring outer commas, as
\* <<first position, last position>>
PairSpans(s) ==
  LET cuts == {0, Len(s) + 1} \cup OuterCommas(s)
  IN  {<<a + 1, b - 1>> : <<a, b>> \in
         {c \in cuts \X cuts :
            /\ c[1] + 1 < c[2]
            /\ \A d \in cuts : ~(c[1] < d /\ d < c[2])}}

PairText(s, span) == SubSeq(s, span[1], span[2])

\* key and value of a piece that is key="value"
KeyOf(seg) ==
  LET t == TrimSpace(seg)
      eq == CHOOSE a \in DOMAIN t : t[a] = "=" /\ \A b \in 1..(a - 1) : t[b] # "="
  IN  TrimSpace(SubSeq(t, 1, eq - 1))

ValueOf(seg) ==
  LET t == TrimSpace(seg)
      eq == CHOOSE a \in DOMAIN t : t[a] = "=" /\ \A b \in 1..(a - 1) : t[b] # "="
  IN  SubSeq(t, eq + 2, Len(t) - 1)

\* the line is of the labelled form and every piece of its label list is
\* key="value"
WellFormedLabelled(line) ==
  LET m == metricWithLabelsRegex(line)
  IN  /\ m.ok
      /\ \A sp \in PairSpans(m.labels) : IsKeyQuotedValue(PairText(m.labels, sp))

\* the keys of the label list of a well-formed labelled line
KeysOf(line) ==
  LET ls == metricWithLabelsRegex(line).labels
  IN  {KeyOf(PairText(ls, sp)) : sp \in PairSpans(ls)}

\* the value of the last pair of the line's label list that has the key
LastValueOf(line, key) ==
  LET ls == metricWithLabelsRegex(line).labels
      at == {sp \in PairSpans(ls) : KeyOf(PairText(ls, sp)) = key}
      last == CHOOSE sp \in at : \A other \in at : other[1] <= sp[1]
  IN  ValueOf(PairText(ls, last))

\* some key of the line's label list appears in two pairs
HasDuplicateKey(line) ==
  Cardinality(PairSpans(metricWithLabelsRegex(line).labels))
    > Cardinality(KeysOf(line))

\* the line Parse has failed on
FailedLine == TrimSpace(lines[result.err.line])

\* C13: a line whose label list is well formed and repeats a key decodes,
\* and the sample's label map holds one entry for that key, with the value
\* of the key's last occurrence.
C13_DuplicateKeyLastWins ==
  pc = "done" =>
    /\ (result.status = "error" /\ result.err.line > 0)
         => ~(WellFormedLabelled(FailedLine) /\ HasDuplicateKey(FailedLine))
    /\ \A j \in DOMAIN result.metrics :
         LET raw == result.metrics[j].Raw
         IN  (WellFormedLabelled(raw) /\ HasDuplicateKey(raw))
               => /\ DOMAIN result.metrics[j].Labels = KeysOf(raw)
                  /\ \A key \in KeysOf(raw) :
                       result.metrics[j].Labels[key] = LastValueOf(raw, key)

\* Parse has returned a sample of the line m{a="x",a="y"}, with the one
\* label a = y
C13_Witness ==
  /\ pc = "done" /\ result.status = "ok"
  /\ \E j \in DOMAIN result.metrics :
       /\ HasDuplicateKey(result.metrics[j].Raw)
       /\ DOMAIN result.metrics[j].Labels = {<<"a">>}
       /\ result.metrics[j].Labels[<<"a">>] = <<"y">>

\* C14: a line whose label list is k key="value" pairs of distinct keys
\* decodes to a sample with exactly k labels, each with the text between its
\* quotes, commas included: a comma inside a quoted value separates nothing.
C14_QuotedCommaKept ==
  pc = "done" =>
    /\ (result.status = "error" /\ result.err.line > 0)
         => ~(WellFormedLabelled(FailedLine) /\ ~HasDuplicateKey(FailedLine))
    /\ \A j \in DOMAIN result.metrics :
         LET raw == result.metrics[j].Raw
             ls  == metricWithLabelsRegex(raw).labels
         IN  (WellFormedLabelled(raw) /\ ~HasDuplicateKey(raw))
               => /\ Cardinality(DOMAIN result.metrics[j].Labels)
                       = Cardinality(PairSpans(ls))
                  /\ \A sp \in PairSpans(ls) :
                       /\ KeyOf(PairText(ls, sp)) \in DOMAIN result.metrics[j].Labels
                       /\ result.metrics[j].Labels[KeyOf(PairText(ls, sp))]
                            = ValueOf(PairText(ls, sp))

\* Parse has returned a sample of the line m{a="x,y",b="z"} 1, with the two
\* labels a = x,y and b = z
C14_Witness ==
  /\ pc = "done" /\ result.status = "ok"
  /\ \E j \in DOMAIN result.metrics :
       /\ DOMAIN result.metrics[j].Labels = {<<"a">>, <<"b">>}
       /\ result.metrics[j].Labels[<<"a">>] = <<"x", ",", "y">>
       /\ result.metrics[j].Labels[<<"b">>] = <<"z">>

\* the raw lines of the input
RawLines == Split(input, "\n")

\* the raw lines that are neither blank nor comments, in input order
SampleLines == SelectSeq(RawLines, LAMBDA l : ~BlankOrComment(l))

\* the raw line does not decode
FailsToDecode(line) == parseLine(TrimSpace(line)).err # NoError

\* the sample lines that do not decode, in input order
FailingLines == SelectSeq(SampleLines, FailsToDecode)

\* C18: Parse returns either samples and a report or an error, never both
\* and never neither.  When some line that is neither blank nor a comment
\* does not decode, the error is that of the first such line and names it,
\* and neither samples nor a report are returned, whatever the lines before
\* and after it; otherwise the samples are the decoded lines in input order.
C18_ResultOrError ==
  pc = "done" =>
    /\ result.status \in {"ok", "error"}
    /\ result.status = "ok"
         => /\ result.err = NoError
            /\ result.metrics # <<>>
            /\ analysis # NilAnalysis
    /\ result.status = "error"
         => /\ result.err # NoError
            /\ ReturnedNothing
    /\ FailingLines # <<>>
         => /\ result.status = "error"
            /\ result.err.line > 0
            /\ FailedLine = TrimSpace(FailingLines[1])
            /\ result.err.msg = parseLine(FailedLine).err.msg
            /\ result.err.arg = parseLine(FailedLine).err.arg
    /\ (FailingLines = <<>> /\ SampleLines # <<>>)
         => /\ result.status = "ok"
            /\ result.metrics
                 = [j \in DOMAIN SampleLines |->
                      parseLine(TrimSpace(SampleLines[j])).metric]

\* Parse has failed on its second line after decoding the first
C18_Witness ==
  /\ pc = "done" /\ result.status = "error"
  /\ result.err.line = 2
  /\ Len(metrics) = 1
  /\ ReturnedNothing

\* the text is a decimal number: an optional sign, digits with at most one
\* point among them and at least one digit, and an optional exponent of an
\* e or E, an optional sign and at least one digit
IsDecimalNumber(s) ==
  LET sign == IF s # <<>> /\ s[1] \in {"+", "-"} THEN 1 ELSE 0
      d1   == RunLen(s, sign + 1, Digits)
      dot  == IF sign + d1 + 1 <= Len(s) /\ s[sign + d1 + 1] = "." THEN 1 ELSE 0
      d2   == IF dot = 1 THEN RunLen(s, sign + d1 + 2, Digits) ELSE 0
      m    == sign + d1 + dot + d2
      es   == IF m + 2 <= Len(s) /\ s[m + 2] \in {"+", "-"} THEN 1 ELSE 0
      d3   == RunLen(s, m + 2 + es, Digits)
  IN  /\ d1 + d2 > 0
      /\ \/ m = Len(s)
         \/ /\ m < Len(s) /\ s[m + 1] \in {"e", "E"}
            /\ d3 > 0
            /\ m + 1 + es + d3 = Len(s)

\* what follows the metric name and the label list, if any, on the line,
\* without the white space around it
RestOf(line) ==
  LET braces == {j \in DOMAIN line : line[j] = "}"}
  IN  IF braces # {}
      THEN TrimSpace(SubSeq(line, (CHOOSE a \in braces : \A b \in braces : a <= b) + 1,
                            Len(line)))
      ELSE TrimSpace(SubSeq(line, NameLen(line) + 1, Len(line)))

\* C19: the value of every sample of a successful Parse is a decimal number
\* in text form: "0" when nothing follows the name and the label list on the
\* line, and the value token that follows them otherwise.
C19_ValueIsDecimal ==
  (pc = "done" /\ result.status = "ok") =>
    \A j \in DOMAIN result.metrics :
      LET rest == RestOf(result.metrics[j].Raw)
      IN  /\ IsDecimalNumber(result.metrics[j].Value)
          /\ rest = <<>> => result.metrics[j].Value = <<"0">>
          /\ (rest # <<>> /\ \A i \in DOMAIN rest : rest[i] \in ValueChars)
               => result.metrics[j].Value = rest

\* the line starts as the labelled form does, name{...}, and what follows
\* the closing brace is neither nothing nor white space and a value token
\* that ends the line
HasTrailingText(line) ==
  LET n == NameLen(line)
      braces == {j \in DOMAIN line : j > n + 1 /\ line[j] = "}"}
  IN  /\ n > 0 /\ n + 1 <= Len(line) /\ line[n + 1] = "{"
      /\ braces # {}
      /\ LET close == CHOOSE a \in braces : \A b \in braces : a <= b
             rest  == SubSeq(line, close + 1, Len(line))
             ws    == RunLen(rest, 1, SpaceChars)
             v     == RunLen(rest, ws + 1, ValueChars)
         IN  ~(rest = <<>> \/ (ws > 0 /\ v > 0 /\ ws + v = Len(rest)))

\* C21: a labelled line with text after the closing brace that is not a
\* value token ending the line is rejected: no sample of a result comes from
\* such a line, and when it is the first line that is neither blank nor a
\* comment Parse fails with the invalid-format error.
C21_LabelledLineWhollyConsumed ==
  pc = "done" =>
    /\ \A j \in DOMAIN result.metrics : ~HasTrailingText(result.metrics[j].Raw)
    /\ (SampleLines # <<>> /\ HasTrailingText(TrimSpace(SampleLines[1])))
         => /\ result.status = "error"
            /\ result.err.msg = "invalid metric format: %s"

\* the request does not bind: the field is missing or empty
BindFails == ~request.hasMetrics \/ request.Metrics = <<>>

\* what holds of the handler at every moment
EvaluateOrdered ==
  /\ Len(responses) <= 1
  /\ llmCalls # <<>>
       => /\ Len(llmCalls) = 1
          /\ ~BindFails
          /\ input = request.Metrics
          /\ result.status = "ok"
  /\ responses # <<>> => pc = "returned"
  /\ pc = "returned"
       => /\ Len(responses) = 1
          /\ BindFails
               => responses[1].status = 400 /\ llmCalls = <<>>
          /\ (~BindFails /\ result.status = "error")
               => responses[1].status = 400 /\ llmCalls = <<>>
          /\ (llmCalls # <<>> /\ llmCalls[1] # "evaluation")
               => responses[1].status = 500
          /\ responses[1].status = 200
               <=> (result.status = "ok" /\ llmCalls = <<"evaluation">>)

\* C24: every request handled by Evaluate ends in exactly one response; the
\* LLM client is called at most once and only after Parse succeeded on the
\* submitted text; a request that does not bind or whose text does not parse
\* gets 400 and no LLM call, a failed LLM call gets 500, and 200 is sent
\* exactly when Parse and the LLM call both succeeded.
C24_EvaluateOrdered == []EvaluateOrdered /\ <>(pc = "returned")

\* Evaluate has answered 200 after a successful Parse and LLM call
C24_Witness ==
  /\ pc = "returned"
  /\ result.status = "ok"
  /\ llmCalls = <<"evaluation">>
  /\ responses = <<[status |-> 200, name |-> "result.html"]>>

====
